---- MODULE Spec2Model ----
(***************************************************************************)
(* A model of PlotterFunctions.py: the pyplot figure registry, the raster  *)
(* files on disk and the axes the plotting helpers act on.                 *)
(*                                                                         *)
(* Angles and axis coordinates are integers in HALF-DEGREES (Deg(d) = 2d), *)
(* so that the +-0.5 widening numpy applies to a degenerate histogram      *)
(* range stays an integer.                                                  *)
(***************************************************************************)
EXTENDS Integers, Sequences, FiniteSets, TLC

VARIABLES
    figs,       \* pyplot's registry of open figures, oldest first; the last is the current one
    files,      \* the file system: path -> content
    writable,   \* the paths the process may write
    last,       \* the call that ran last: its name, arguments and outcome
    prev,       \* figs and files as they were when that call started
    calls       \* number of calls made so far

vars == <<figs, files, writable, last, prev, calls>>

\* ------------------------------------------------------------------ bounds

MaxRows == 1        \* rows of a table passed to MakeBackground or PhiPsiPlotter
MaxCalls == 2       \* calls in one run of the background stages
MaxPoints == 2      \* rows of a table passed to AddContour
MaxContourCalls == 3 \* calls in one run of AddContour over all its tables and levels
MaxAxisCalls == 5   \* calls in one run of the axis helpers

\* ------------------------------------------------------------- units, data

Deg(d) == 2 * d

Row(t, phi, psi) == [type |-> t, phi |-> Deg(phi), psi |-> Deg(psi)]

REQUIRED == {"type", "phi", "psi"}

\* The records a table is built from (all inside [-180,180]).
Rows ==
    { Row("Glycine", -90, 0),
      Row("Trans-proline", -60, 150),
      Row("Cis-proline", -90, 0) }

Schemas == { REQUIRED, REQUIRED \ {"type"}, REQUIRED \ {"phi"} }

SeqsUpTo(S, n) == UNION { [1..k -> S] : k \in 0..n }

\* A table: the columns it has and its rows.
Tables == { [cols |-> c, rows |-> r] : c \in Schemas, r \in SeqsUpTo(Rows, MaxRows) }

FullTables == { t \in Tables : t.cols = REQUIRED }

HasCol(df, name) == name \in df.cols

Column(df, name) == [k \in 1..Len(df.rows) |-> df.rows[k][name]]

SelectRows(df, mask) ==
    LET F[k \in 0..Len(df.rows)] ==
            IF k = 0 THEN <<>>
            ELSE IF mask[k] THEN Append(F[k-1], df.rows[k]) ELSE F[k-1]
    IN [cols |-> df.cols, rows |-> F[Len(df.rows)]]

BaseNames == {"bg", "out"}
PngName(file_name) == file_name \o ".png"
Paths == { PngName(b) : b \in BaseNames }

Colours == {"Blues"}
PlotTypes == {"All", "Proline", "Glycine"}

\* The tables AddContour is given: complete ones, a cell hit twice among them.
ContourRows == { Row("Glycine", -90, 0), Row("Trans-proline", -60, 150) }
ContourTables == { [cols |-> REQUIRED, rows |-> r] : r \in SeqsUpTo(ContourRows, MaxPoints) }

Levels == {-1, 0, 1, 2, 3}

\* The tables and the level of the contour calls made between the other axis helpers.
BriefTables == { t \in ContourTables : Len(t.rows) <= 1 }
BriefLevels == {1}

\* ------------------------------------------------- numpy's 2D histogram

SeqMin(a) == CHOOSE v \in {a[k] : k \in DOMAIN a} : \A k \in DOMAIN a : v <= a[k]
SeqMax(a) == CHOOSE v \in {a[k] : k \in DOMAIN a} : \A k \in DOMAIN a : v >= a[k]

\* A histogram called with no range takes its outer edges from the data:
\* (0, 1) for no data, v -+ 0.5 when all values equal v, else (min, max).
OuterEdges(a) ==
    IF Len(a) = 0 THEN <<Deg(0), Deg(1)>>
    ELSE IF SeqMin(a) = SeqMax(a) THEN <<SeqMin(a) - 1, SeqMax(a) + 1>>
    ELSE <<SeqMin(a), SeqMax(a)>>

\* The 1-based bin of v among `bins` equal bins over e; the last edge belongs to the last bin.
BinIndex(v, e, bins) ==
    IF v = e[2] THEN bins ELSE (((v - e[1]) * bins) \div (e[2] - e[1])) + 1

\* counts holds the non-empty cells only: every other cell of the bins x bins grid counts 0.
Hist2d(x, y, bins) ==
    LET xe == OuterEdges(x)
        ye == OuterEdges(y)
        cell(k) == <<BinIndex(x[k], xe, bins), BinIndex(y[k], ye, bins)>>
        occ == { cell(k) : k \in DOMAIN x }
    IN [ counts |-> [c \in occ |-> Cardinality({k \in DOMAIN x : cell(k) = c})],
         xedges |-> xe, yedges |-> ye, bins |-> bins ]

Count(h, c) == IF c \in DOMAIN h.counts THEN h.counts[c] ELSE 0

MaxCount(h) ==
    IF DOMAIN h.counts = {} THEN 0
    ELSE CHOOSE m \in {h.counts[c] : c \in DOMAIN h.counts} :
            \A c \in DOMAIN h.counts : m >= h.counts[c]

MinCount(h) ==
    IF Cardinality(DOMAIN h.counts) < h.bins * h.bins THEN 0
    ELSE CHOOSE m \in {h.counts[c] : c \in DOMAIN h.counts} :
            \A c \in DOMAIN h.counts : m <= h.counts[c]

\* ---------------------------------------------------------------- pyplot

Lim180 == <<Deg(-180), Deg(180)>>

\* An axes as plt.subplots makes it.
NewAxes ==
    [ xlim |-> <<Deg(0), Deg(1)>>, ylim |-> <<Deg(0), Deg(1)>>,
      autoscale |-> TRUE, sticky |-> FALSE,
      frame_on |-> TRUE, axis_on |-> TRUE,
      xaxis_visible |-> TRUE, yaxis_visible |-> TRUE,
      grid |-> FALSE, xlabel |-> "", ylabel |-> "",
      lw_left |-> 1, lw_bottom |-> 1,
      artists |-> <<>> ]

FigNums(fs) == { fs[i].num : i \in DOMAIN fs }

NextNum(fs) ==
    IF fs = <<>> THEN 1
    ELSE 1 + (CHOOSE n \in FigNums(fs) : \A m \in FigNums(fs) : n >= m)

\* plt.figure(): a new figure, numbered one past the largest open one, becomes current.
NewFigure(fs, withAxes) ==
    Append(fs, [num |-> NextNum(fs), patch_visible |-> TRUE,
                axes |-> IF withAxes THEN <<NewAxes>> ELSE <<>>])

\* plt.gcf(): the current figure, made first when none is open.
Gcf(fs) == IF fs = <<>> THEN NewFigure(fs, FALSE) ELSE fs

\* plt.gca(): the current figure's axes, made first when it has none.
Gca(fs) ==
    LET g == Gcf(fs)
        n == Len(g)
    IN IF g[n].axes = <<>> THEN [g EXCEPT ![n].axes = <<NewAxes>>] ELSE g

Current(fs) == fs[Len(fs)].num

Index(fs, num) == CHOOSE i \in DOMAIN fs : fs[i].num = num

AxesOf(fs, num) == fs[Index(fs, num)].axes[1]

SetAxes(fs, num, a) == [fs EXCEPT ![Index(fs, num)].axes = <<a>>]

\* fig.patch.set_visible(False) on the current figure.
HidePatch(fs) == [fs EXCEPT ![Len(fs)].patch_visible = FALSE]

\* The figure numbers whose axes a caller can hold.
AxesHandles(fs) == { fs[i].num : i \in {j \in DOMAIN fs : fs[j].axes # <<>>} }

\* plt.close(): closes the current figure; nothing to do when none is open.
PltClose(fs) == IF fs = <<>> THEN fs ELSE SubSeq(fs, 1, Len(fs) - 1)

\* The state a call works on: the registry, the disk, the file accesses made, the exception raised.
World(f, d, wr) == [figs |-> f, files |-> d, writable |-> wr, io |-> <<>>, exc |-> "none"]

Raise(w, e) == [w EXCEPT !.exc = e]

Absent == [kind |-> "absent"]

\* What savefig writes: the resolution and the artists of the current figure.
Render(fig, resolution) ==
    [ kind |-> "png", dpi |-> resolution, background |-> fig.patch_visible,
      layers |-> IF fig.axes = <<>> THEN <<>> ELSE fig.axes[1].artists ]

\* An artist of an axes: what it is, how it is drawn (alpha in tenths), what it shows.
Artist(kind, style, data) == [kind |-> kind, style |-> style, data |-> data]

\* Axes.hist2d: draws the count grid as a mesh and sets both limits to the outer bin edges.
AxHist2d(a, h, style) ==
    [a EXCEPT !.artists = Append(@, Artist("QuadMesh", style, h)),
              !.xlim = h.xedges, !.ylim = h.yedges, !.autoscale = FALSE]

\* ------------------------------------------------------ the background stages

FigureSize == 10

SaveAndCloseFigure(w, out_file_name, resolution) ==
    LET g == Gcf(w.figs)
        png == Render(g[Len(g)], resolution)
    IN IF out_file_name \notin w.writable
       THEN Raise([w EXCEPT !.figs = g], "IOError")
       ELSE [w EXCEPT !.figs = PltClose(g),
                      !.files[out_file_name] = png,
                      !.io = Append(@, [act |-> "write", path |-> out_file_name, data |-> png])]

PhiPsiPlotter(w, phi_angles, psi_angles, figsize, file_name, background_colour) ==
    LET f == HidePatch(NewFigure(w.figs, TRUE))
        kwargs == [bins |-> 140, cmap |-> background_colour, norm |-> "PowerNorm(0.1)", alpha |-> 10]
        off == [NewAxes EXCEPT !.axis_on = FALSE]
        ax == AxHist2d(off, Hist2d(phi_angles, psi_angles, kwargs.bins), kwargs)
    IN SaveAndCloseFigure([w EXCEPT !.figs = SetAxes(f, Current(f), ax)], file_name, 80)

\* cv2.imread(file_name, 0): the grey levels of the image, or None when there is no readable image.
Imread(w, file_name) == w.files[file_name]

\* Pixels along one side of a written raster.
Side(png) == FigureSize * png.dpi

\* Smoother saving the smoothed raster beside the raster it read instead of over it.
SmootherMisplaced(w, file_name, figsize, background_colour) ==
    LET f == HidePatch(NewFigure(w.figs, TRUE))
        kwargs == [cmap |-> background_colour \o "_r", alpha |-> 10]
        off == [NewAxes EXCEPT !.axis_on = FALSE]
        rama_plot == Imread(w, file_name)
        elsewhere == CHOOSE q \in DOMAIN w.files : q # file_name
        w1 == [w EXCEPT !.figs = SetAxes(f, Current(f), off),
                        !.io = Append(@, [act |-> "read", path |-> file_name, data |-> rama_plot])]
    IN IF rama_plot = Absent
       THEN Raise(w1, "FilterError")
       ELSE LET smoothed_rama_plot ==
                    [sigma |-> "0.3", percentile |-> 90, size |-> 20, src |-> rama_plot]
                shown == [off EXCEPT
                            !.artists = Append(@, Artist("AxesImage", kwargs, smoothed_rama_plot)),
                            !.xlim = <<-1, 2 * Side(rama_plot) - 1>>,
                            !.ylim = <<2 * Side(rama_plot) - 1, -1>>]
                w2 == SaveAndCloseFigure([w1 EXCEPT !.figs = SetAxes(f, Current(f), shown)],
                                         elsewhere, 96)
            IN IF w2.exc # "none" THEN w2 ELSE [w2 EXCEPT !.figs = PltClose(@)]

Smoother(w, file_name, figsize, background_colour) ==
    LET f == HidePatch(NewFigure(w.figs, TRUE))
        kwargs == [cmap |-> background_colour \o "_r", alpha |-> 10]
        off == [NewAxes EXCEPT !.axis_on = FALSE]
        rama_plot == Imread(w, file_name)
        w1 == [w EXCEPT !.figs = SetAxes(f, Current(f), off),
                        !.io = Append(@, [act |-> "read", path |-> file_name, data |-> rama_plot])]
    IN IF rama_plot = Absent
       THEN Raise(w1, "FilterError")      \* gaussian_filter(None) raises
       ELSE LET smoothed_rama_plot ==
                    [sigma |-> "0.3", percentile |-> 90, size |-> 20, src |-> rama_plot]
                shown == [off EXCEPT
                            !.artists = Append(@, Artist("AxesImage", kwargs, smoothed_rama_plot)),
                            !.xlim = <<-1, 2 * Side(rama_plot) - 1>>,
                            !.ylim = <<2 * Side(rama_plot) - 1, -1>>]
                bkgd_resolution == 96
                w2 == SaveAndCloseFigure([w1 EXCEPT !.figs = SetAxes(f, Current(f), shown)],
                                         file_name, bkgd_resolution)
            IN IF w2.exc # "none" THEN w2 ELSE [w2 EXCEPT !.figs = PltClose(@)]

\* Python values as pandas compares them: a bool never equals a str.
PyStr(s) == [tag |-> "str", s |-> s, b |-> FALSE]
PyBool(b) == [tag |-> "bool", s |-> "", b |-> b]
Truthy(x) == IF x.tag = "bool" THEN x.b ELSE x.s # ""

\* series == scalar, element by element.
SeriesEq(series, scalar) == [k \in DOMAIN series |-> PyBool(series[k] = scalar)]

\* left | right, element by element; pandas casts an object column to bool first.
SeriesOr(left, right) == [k \in DOMAIN left |-> PyBool(Truthy(left[k]) \/ Truthy(right[k]))]

\* (type == 'Trans-proline') | type == 'Cis-proline': | binds tighter than ==.
ProlineMask(df) ==
    LET type == [k \in 1..Len(df.rows) |-> PyStr(df.rows[k].type)]
        m == SeriesEq(SeriesOr(SeriesEq(type, PyStr("Trans-proline")), type), PyStr("Cis-proline"))
    IN [k \in DOMAIN m |-> m[k].b]

\* The filter with the selection of the last branch never assigned: every row is kept.
FilterRowsKeepsAll(df, plot_type) ==
    IF plot_type = "All" THEN [exc |-> "none", df |-> df]
    ELSE IF ~HasCol(df, "type") THEN [exc |-> "KeyError", df |-> df]
    ELSE IF plot_type = "Proline" THEN [exc |-> "none", df |-> SelectRows(df, ProlineMask(df))]
    ELSE [exc |-> "none", df |-> df]

\* Lines 116-123: the rows MakeBackground keeps; raises KeyError without a type column.
FilterRows(df, plot_type) ==
    IF plot_type = "All" THEN [exc |-> "none", df |-> df]
    ELSE IF ~HasCol(df, "type") THEN [exc |-> "KeyError", df |-> df]
    ELSE IF plot_type = "Proline" THEN [exc |-> "none", df |-> SelectRows(df, ProlineMask(df))]
    ELSE [exc |-> "none",
          df |-> SelectRows(df, [k \in 1..Len(df.rows) |-> df.rows[k].type = plot_type])]

MakeBackground(w, dihedral_df, plot_type, file_name, background_colour) ==
    LET figure_size_background == <<FigureSize, FigureSize>>
        kept == FilterRows(dihedral_df, plot_type)
        png == PngName(file_name)
    IN IF kept.exc # "none" THEN Raise(w, kept.exc)
       ELSE IF ~HasCol(kept.df, "phi") \/ ~HasCol(kept.df, "psi") THEN Raise(w, "KeyError")
       ELSE LET w1 == PhiPsiPlotter(w, Column(kept.df, "phi"), Column(kept.df, "psi"),
                                    figure_size_background, png, background_colour)
            IN IF w1.exc # "none" THEN w1
               ELSE Smoother(w1, png, figure_size_background, background_colour)

\* ---------------------------------------------------------------- actions

NoArgs == [none |-> TRUE]

\* The call `op` with arguments `args` took World(figs, files, writable) to w.
Did(op, args, w) ==
    /\ figs' = w.figs
    /\ files' = w.files
    /\ last' = [op |-> op, args |-> args, exc |-> w.exc, io |-> w.io]
    /\ prev' = [figs |-> figs, files |-> files]
    /\ calls' = calls + 1
    /\ UNCHANGED writable

Now == World(figs, files, writable)

Init ==
    /\ figs = <<>>
    /\ files = [p \in Paths |-> Absent]
    /\ writable \in {Paths, Paths \ {PngName("out")}}
    /\ last = [op |-> "import", args |-> NoArgs, exc |-> "none", io |-> <<>>]
    /\ prev = [figs |-> <<>>, files |-> [p \in Paths |-> Absent]]
    /\ calls = 0

\* The caller (main) opens a figure of its own: fig, ax = plt.subplots().
CallerFigure ==
    /\ calls < MaxAxisCalls
    /\ Did("subplots", NoArgs, [Now EXCEPT !.figs = NewFigure(figs, TRUE)])

SaveAndCloseFigureCall ==
    /\ calls < MaxCalls
    /\ \E p \in Paths, r \in {80, 96} :
          Did("SaveAndCloseFigure", [path |-> p, resolution |-> r], SaveAndCloseFigure(Now, p, r))

PhiPsiPlotterCall ==
    /\ calls < MaxCalls
    /\ \E df \in FullTables, p \in Paths, c \in Colours :
          Did("PhiPsiPlotter", [df |-> df, path |-> p, colour |-> c],
              PhiPsiPlotter(Now, Column(df, "phi"), Column(df, "psi"),
                            <<FigureSize, FigureSize>>, p, c))

SmootherCall ==
    /\ calls < MaxCalls
    /\ \E p \in Paths, c \in Colours :
          Did("Smoother", [path |-> p, colour |-> c],
              Smoother(Now, p, <<FigureSize, FigureSize>>, c))

MakeBackgroundCall ==
    /\ calls < MaxCalls
    /\ \E df \in Tables, t \in PlotTypes, b \in BaseNames, c \in Colours :
          Did("MakeBackground", [df |-> df, plot_type |-> t, file_name |-> b, colour |-> c],
              MakeBackground(Now, df, t, b, c))

\* ------------------------------------------------------------ the axis helpers

AxesRemover(w, mpl_axis) ==
    LET a == [AxesOf(w.figs, mpl_axis) EXCEPT !.frame_on = FALSE]
    IN \* line 46: an Axes has no get_xmpl_axis
       Raise([w EXCEPT !.figs = SetAxes(@, mpl_axis, a)], "AttributeError")

\* The grid points of z (rows y, columns x) as contour sees them.
Transpose(h) == [h EXCEPT !.counts = [c \in { <<d[2], d[1]>> : d \in DOMAIN h.counts } |-> h.counts[<<c[2], c[1]>>]]]

Corners(q) == { <<q[1], q[2]>>, <<q[1] + 1, q[2]>>, <<q[1], q[2] + 1>>, <<q[1] + 1, q[2] + 1>> }

\* A contour that takes a grid point at the level itself for one above it.
ContourQuadsAtLevel(z, level) ==
    LET near == { <<c[1] - d[1], c[2] - d[2]>> : c \in DOMAIN z.counts, d \in {0, 1} \X {0, 1} }
        quads == { q \in near : q[1] \in 1..(z.bins - 1) /\ q[2] \in 1..(z.bins - 1) }
    IN { q \in quads : /\ \E c \in Corners(q) : Count(z, c) >= level
                       /\ \E c \in Corners(q) : ~(Count(z, c) >= level) }

\* The quads of the grid the contour line at `level` crosses: those with a corner above the
\* level and a corner not above it. Only a quad with a non-empty cell at a corner can have
\* corners that differ, so only those are tried.
ContourQuads(z, level) ==
    LET near == { <<c[1] - d[1], c[2] - d[2]>> : c \in DOMAIN z.counts, d \in {0, 1} \X {0, 1} }
        quads == { q \in near : q[1] \in 1..(z.bins - 1) /\ q[2] \in 1..(z.bins - 1) }
    IN { q \in quads : /\ \E c \in Corners(q) : Count(z, c) > level
                       /\ \E c \in Corners(q) : ~(Count(z, c) > level) }

\* Axes.contour: adds the lines; an autoscaling axes takes the extent as its limits.
AxContour(a, style, lines) ==
    [a EXCEPT !.artists = Append(@, Artist("contour", style, lines)),
              !.xlim = IF a.autoscale THEN <<lines.extent[1], lines.extent[2]>> ELSE @,
              !.ylim = IF a.autoscale THEN <<lines.extent[3], lines.extent[4]>> ELSE @,
              !.sticky = TRUE]

AddContour(w, axis, df, contour_level, line_colour, contour_alpha) ==
    IF ~HasCol(df, "phi") \/ ~HasCol(df, "psi") THEN Raise(w, "KeyError")
    ELSE LET g == Gca(w.figs)        \* plt.hist2d draws on pyplot's current axes
             counts == Hist2d(Column(df, "phi"), Column(df, "psi"), 90)
             drawn == SetAxes(g, Current(g),
                              AxHist2d(AxesOf(g, Current(g)), counts,
                                       [bins |-> 90, norm |-> "LogNorm", alpha |-> 0]))
             lines == [ level |-> contour_level,
                        quads |-> ContourQuads(Transpose(counts), contour_level),
                        extent |-> <<Deg(-180), Deg(180), Deg(-180), Deg(180)>> ]
             style == [linewidths |-> 1, colors |-> line_colour, zorder |-> 2, alpha |-> contour_alpha]
         IN [w EXCEPT !.figs = SetAxes(drawn, axis, AxContour(AxesOf(drawn, axis), style, lines))]

\* Lines added to an autoscaling axes widen its limits by the 5% margin, unless a contour
\* pins them to its extent.
WithMargin(a, lo, hi) ==
    IF ~a.autoscale THEN a
    ELSE IF a.sticky THEN [a EXCEPT !.xlim = <<lo, hi>>, !.ylim = <<lo, hi>>]
    ELSE [a EXCEPT !.xlim = <<lo - (hi - lo) \div 20, hi + (hi - lo) \div 20>>,
                   !.ylim = <<lo - (hi - lo) \div 20, hi + (hi - lo) \div 20>>]

AddGridLines(w, axis) ==
    LET zero_lines_kwargs == [colors |-> "Grey", alpha |-> 4, zorder |-> 3, linewidths |-> 1]
        a == AxesOf(w.figs, axis)
        gridded == [a EXCEPT !.grid = TRUE]
        lined == [gridded EXCEPT !.artists =
                     @ \o << Artist("hlines", zero_lines_kwargs, [at |-> 0, from |-> Deg(-180), to |-> Deg(180)]),
                             Artist("vlines", zero_lines_kwargs, [at |-> 0, from |-> Deg(-180), to |-> Deg(180)]) >>]
    IN [w EXCEPT !.figs = SetAxes(@, axis, WithMargin(lined, Deg(-180), Deg(180)))]

\* FormatAxis setting the x limits twice and the y limits never.
FormatAxisXOnly(w, axis) ==
    LET ax_linewidth == 2
        a == AxesOf(w.figs, axis)
    IN [w EXCEPT !.figs = SetAxes(@, axis,
            [a EXCEPT !.xlim = <<Deg(-180), Deg(180)>>,
                      !.autoscale = FALSE,
                      !.xlabel = "phi (degree)",
                      !.ylabel = "psi (degree)",
                      !.lw_left = ax_linewidth,
                      !.lw_bottom = ax_linewidth])]

FormatAxis(w, axis) ==
    LET ax_linewidth == 2
        a == AxesOf(w.figs, axis)
    IN [w EXCEPT !.figs = SetAxes(@, axis,
            [a EXCEPT !.xlim = <<Deg(-180), Deg(180)>>,
                      !.ylim = <<Deg(-180), Deg(180)>>,
                      !.autoscale = FALSE,
                      !.xlabel = "phi (degree)",
                      !.ylabel = "psi (degree)",
                      !.lw_left = ax_linewidth,
                      !.lw_bottom = ax_linewidth])]

AxesRemoverCall ==
    /\ calls < MaxAxisCalls
    /\ \E a \in AxesHandles(figs) :
          Did("AxesRemover", [axis |-> a], AxesRemover(Now, a))

AddContourCall ==
    /\ calls < MaxContourCalls
    /\ \E a \in AxesHandles(figs), df \in ContourTables, l \in Levels :
          Did("AddContour", [axis |-> a, df |-> df, level |-> l],
              AddContour(Now, a, df, l, "black", 10))

AddContourBrief ==
    /\ calls < MaxAxisCalls
    /\ \E a \in AxesHandles(figs), df \in BriefTables, l \in BriefLevels :
          Did("AddContour", [axis |-> a, df |-> df, level |-> l],
              AddContour(Now, a, df, l, "black", 10))

AddGridLinesCall ==
    /\ calls < MaxAxisCalls
    /\ \E a \in AxesHandles(figs) :
          Did("AddGridLines", [axis |-> a], AddGridLines(Now, a))

FormatAxisCall ==
    /\ calls < MaxAxisCalls
    /\ \E a \in AxesHandles(figs) :
          Did("FormatAxis", [axis |-> a], FormatAxis(Now, a))

NextAxis ==
    \/ CallerFigure
    \/ AxesRemoverCall
    \/ AddContourBrief
    \/ AddGridLinesCall
    \/ FormatAxisCall

SpecAxis == Init /\ [][NextAxis]_vars

NextContour ==
    \/ CallerFigure
    \/ AddContourCall

SpecContour == Init /\ [][NextContour]_vars

NextBackground ==
    \/ CallerFigure
    \/ SaveAndCloseFigureCall
    \/ PhiPsiPlotterCall
    \/ SmootherCall
    \/ MakeBackgroundCall

SpecBackground == Init /\ [][NextBackground]_vars

Next == NextBackground \/ NextAxis \/ NextContour

Spec == Init /\ [][Next]_vars

\* ----------------------------------------------------------------- claims

Returned(op) == last.op = op /\ last.exc = "none"

\* The raster the background histogram is saved as: one mesh at 80 dpi.
IsRaw(png) ==
    /\ png.kind = "png" /\ png.dpi = 80
    /\ Len(png.layers) = 1 /\ png.layers[1].kind = "QuadMesh"

\* The raster Smoother saves from the raster `raw` it read: one image at 96 dpi.
IsSmoothedOf(png, raw) ==
    /\ png.kind = "png" /\ png.dpi = 96
    /\ Len(png.layers) = 1 /\ png.layers[1].kind = "AxesImage"
    /\ png.layers[1].data.src = raw

\* C1: when MakeBackground returns normally, PhiPsiPlotter has written the raw raster to
\* file_name + '.png', Smoother has then read that raster from that path and written the
\* smoothed raster over it; the path holds the smoothed raster alone and no other path
\* has changed.
C1_SmoothedInPlace ==
    Returned("MakeBackground") =>
        LET p == last.args.file_name \o ".png"
        IN /\ Len(last.io) = 3
           /\ last.io[1].act = "write" /\ last.io[1].path = p /\ IsRaw(last.io[1].data)
           /\ last.io[2].act = "read" /\ last.io[2].path = p
           /\ last.io[2].data = last.io[1].data
           /\ last.io[3].act = "write" /\ last.io[3].path = p
           /\ IsSmoothedOf(last.io[3].data, last.io[1].data)
           /\ files[p] = last.io[3].data
           /\ \A q \in Paths \ {p} : files[q] = prev.files[q]

\* MakeBackground returned over a raster that was already at the path, and another one exists.
C1_Witness ==
    /\ Returned("MakeBackground")
    /\ prev.files[PngName(last.args.file_name)] # Absent
    /\ files[PngName(last.args.file_name)] # prev.files[PngName(last.args.file_name)]
    /\ last.args.df.rows # <<>>

\* The rows the claim says a plot type selects.
ClaimedRows(df, plot_type) ==
    { k \in 1..Len(df.rows) :
        \/ plot_type = "All"
        \/ plot_type = "Proline" /\ df.rows[k].type \in {"Trans-proline", "Cis-proline"}
        \/ plot_type \notin {"All", "Proline"} /\ df.rows[k].type = plot_type }

RECURSIVE SumOver(_, _)
SumOver(f, S) ==
    IF S = {} THEN 0 ELSE LET c == CHOOSE c \in S : TRUE IN f[c] + SumOver(f, S \ {c})

\* The number of points a histogram has counted.
Total(h) == SumOver(h.counts, DOMAIN h.counts)

\* The histogram PhiPsiPlotter drew in the call that ran last.
DrawnHist == last.io[1].data.layers[1].data

\* C2: the rows MakeBackground passes to PhiPsiPlotter are the rows of type Trans-proline or
\* Cis-proline for 'Proline', the rows of type plot_type for another type, all rows for 'All'.
C2_FilterSelects ==
    Returned("MakeBackground") =>
        Total(DrawnHist) = Cardinality(ClaimedRows(last.args.df, last.args.plot_type))

\* The histogram AddContour computed in the call that ran last: the mesh it drew on the
\* current axes, under the contour when that is the axes it was given.
ContourHist ==
    LET a == AxesOf(figs, Current(figs)).artists
    IN IF last.args.axis = Current(figs) THEN a[Len(a) - 1].data ELSE a[Len(a)].data

\* The contour AddContour added in the call that ran last.
ContourLines ==
    LET a == AxesOf(figs, last.args.axis).artists IN a[Len(a)].data

\* C3: the histogram of a table that has rows spans exactly [-180,180] on both axes,
\* whatever the rows are: the 140 x 140 one of PhiPsiPlotter and the 90 x 90 one of AddContour.
C3_BinDomain ==
    /\ (Returned("PhiPsiPlotter") /\ last.args.df.rows # <<>>) =>
          DrawnHist.xedges = Lim180 /\ DrawnHist.yedges = Lim180
    /\ (Returned("AddContour") /\ last.args.df.rows # <<>>) =>
          ContourHist.xedges = Lim180 /\ ContourHist.yedges = Lim180

Stages == {"SaveAndCloseFigure", "PhiPsiPlotter", "Smoother", "MakeBackground"}

\* C4: whether a stage returns or raises, no figure it created is still open afterwards.
C4_FiguresReleased ==
    last.op \in Stages => FigNums(figs) \subseteq FigNums(prev.figs)

\* Every cell of the histogram has the same count.
Uniform(h) == MinCount(h) = MaxCount(h)

\* A raster smoothed from the mesh of a uniform histogram: one colour throughout.
Blank(png) ==
    /\ png.kind = "png" /\ Len(png.layers) = 1 /\ png.layers[1].kind = "AxesImage"
    /\ IsRaw(png.layers[1].data.src)
    /\ Uniform(png.layers[1].data.src.layers[1].data)

C6_AsStated ==
    Returned("AddContour") =>
        /\ last.args.level > MaxCount(ContourHist) => ContourLines.quads = {}
        /\ (/\ \E c \in DOMAIN ContourHist.counts : ContourHist.counts[c] >= last.args.level
            /\ MaxCount(ContourHist) <= last.args.level)
              => ContourLines.quads # {}

\* C6, amended: no contour segment when the level is at or above the largest cell count, and
\* at least one when some cell's count is above the level and some cell's count is not.
C6_ContourCrossings ==
    Returned("AddContour") =>
        /\ last.args.level >= MaxCount(ContourHist) => ContourLines.quads = {}
        /\ (MinCount(ContourHist) <= last.args.level /\ last.args.level < MaxCount(ContourHist))
              => ContourLines.quads # {}

\* A level equal to the largest count, 2, of a table with two points in one cell: no segment.
C6_Witness ==
    /\ Returned("AddContour")
    /\ MaxCount(ContourHist) = 2
    /\ last.args.level = 2
    /\ ContourLines.quads = {}

\* C7: after FormatAxis the limits of the axis are (-180, 180) on both axes.
C7_LimitsAfterFormat ==
    last.op = "FormatAxis" =>
        /\ last.exc = "none"
        /\ AxesOf(figs, last.args.axis).xlim = Lim180
        /\ AxesOf(figs, last.args.axis).ylim = Lim180

\* FormatAxis ran on an axis whose limits an AddContour call had set to the range of its data.
C7_Witness ==
    /\ last.op = "FormatAxis"
    /\ LET before == AxesOf(prev.figs, last.args.axis)
       IN /\ ~before.autoscale
          /\ before.xlim # Lim180
          /\ before.ylim # Lim180
          /\ \E i \in DOMAIN before.artists : before.artists[i].kind = "QuadMesh"
          /\ \E i \in DOMAIN before.artists : before.artists[i].kind = "hlines"

\* C8: AxesRemover returns normally with the frame and the ticks of both axes removed.
C8_AxesRemoved ==
    last.op = "AxesRemover" =>
        /\ last.exc = "none"
        /\ ~AxesOf(figs, last.args.axis).frame_on
        /\ ~AxesOf(figs, last.args.axis).xaxis_visible
        /\ ~AxesOf(figs, last.args.axis).yaxis_visible

\* C9: after Smoother or MakeBackground returns, the figures that were open before are open
\* as they were and the current figure is the one that was current.
C9_CallerFiguresKept ==
    (Returned("Smoother") \/ Returned("MakeBackground")) => figs = prev.figs

\* C10: AddContour opens no figure, changes no axes but the one it is given, and leaves the
\* limits of that one as they were.
C10_ContourFrame ==
    Returned("AddContour") =>
        /\ FigNums(figs) = FigNums(prev.figs)
        /\ \A n \in AxesHandles(prev.figs) \ {last.args.axis} :
              AxesOf(figs, n) = AxesOf(prev.figs, n)
        /\ AxesOf(figs, last.args.axis).xlim = AxesOf(prev.figs, last.args.axis).xlim
        /\ AxesOf(figs, last.args.axis).ylim = AxesOf(prev.figs, last.args.axis).ylim

====
